---- MODULE Spec2Model ----
(***************************************************************************)
(* A model of latex_service.py: format detection, archive extraction       *)
(* dispatch, the /compile request handler and the compile_latex pipeline.  *)
(*                                                                         *)
(* A file is a record [exts, content, mime]:                               *)
(*   exts    the dotted components of its name after the stem, in order    *)
(*           ("upload.tar.gz" is <<".tar", ".gz">>); the stem is non-empty *)
(*           and holds no dot;                                             *)
(*   content what the bytes really are;                                    *)
(*   mime    what libmagic reports for those bytes.                        *)
(***************************************************************************)
EXTENDS Naturals, Sequences, FiniteSets, TLC

VARIABLES
    MAGIC_SUPPORTED,     \* line 13-18: python-magic importable
    RAR_SUPPORTED,       \* line 20-25: rarfile importable
    SEVENZ_SUPPORTED,    \* line 27-32: py7zr importable
    call,                \* the last direct call of a module function, or NoCall
    pc,                  \* position of the /compile request handler
    uploaded,            \* the upload of the request (request.files["file"])
    archive_path,        \* line 353/358: None, or the saved upload
    upload_tmp,          \* the temp dir and file made by save_uploaded_file, and
                         \* whether deleting them raised
    workdir,             \* the workspace directory: [created, exists, files]
    main_tex,            \* line 375-383: the entry document
    invocations,         \* the subprocess.run calls of compile_latex, in order
    needs_pythontex,     \* line 134-150
    result,              \* what compile_latex returned
    timed_out,           \* index in invocations of the call that timed out, or 0
    descendants_alive,   \* processes of the job still running after a timeout
    pdf_writer,          \* who wrote the file at pdf_file, or "none"
    log_files,           \* lines 403-409: the logs glob("*.log") lists, as read
    response             \* what the handler hands back

vars == <<MAGIC_SUPPORTED, RAR_SUPPORTED, SEVENZ_SUPPORTED, call, pc, uploaded,
          archive_path, upload_tmp, workdir, main_tex, invocations,
          needs_pythontex, result, timed_out, descendants_alive, pdf_writer,
          log_files, response>>

----------------------------------------------------------------------------
(* Bounds of the model *)

\* the number of dotted name components of a file given to a direct call
MaxExts == 2

\* the number of lines of an entry document's source text
MaxTexLines == 2

\* the number of lines of a log file
MaxLogLines == 2

----------------------------------------------------------------------------
(* File names *)

Exts == {".zip", ".ZIP", ".tar", ".gz", ".bz2", ".xz", ".rar", ".7z", ".txt"}

ExtSeqs(n) == UNION {[1..k -> Exts] : k \in 0..n}

\* str.lower() on the name components of the model
Lower(s) == IF s = ".ZIP" THEN ".zip" ELSE s

\* pathlib's Path.suffix: the last dotted component, "" when there is none
PathSuffix(exts) == IF Len(exts) = 0 THEN "" ELSE exts[Len(exts)]

\* name.endswith(('.tar.gz', '.tar.bz2', '.tar.xz')), case-sensitive
EndsWithCompound(exts) ==
    /\ Len(exts) >= 2
    /\ exts[Len(exts) - 1] = ".tar"
    /\ exts[Len(exts)] \in {".gz", ".bz2", ".xz"}

\* name.lower().endswith(('.tar.gz', '.tar.bz2', '.tar.xz'))
LowerEndsWithCompound(exts) ==
    EndsWithCompound([i \in 1..Len(exts) |-> Lower(exts[i])])

----------------------------------------------------------------------------
(* Contents and what libmagic reports for them *)

Contents == {"zip", "zip_badcrc", "tar", "tar_truncated", "targz", "tarbz2",
             "tarxz", "rar", "7z", "text", "empty"}

\* magic.from_file(path, mime=True); where libmagic versions differ, each answer
MagicMimes(content) ==
    CASE content \in {"zip", "zip_badcrc"} -> {"application/zip"}
      [] content \in {"tar", "tar_truncated"} -> {"application/x-tar"}
      [] content = "targz"  -> {"application/gzip"}
      [] content = "tarbz2" -> {"application/x-bzip2"}
      [] content = "tarxz"  -> {"application/x-xz"}
      [] content = "rar"    -> {"application/x-rar", "application/x-rar-compressed"}
      [] content = "7z"     -> {"application/x-7z-compressed"}
      [] content = "text"   -> {"text/plain"}
      [] content = "empty"  -> {"inode/x-empty"}

\* the files with names of at most n components
Files(n) == UNION {{[exts |-> e, content |-> c, mime |-> m] :
                        e \in ExtSeqs(n), m \in MagicMimes(c)} : c \in Contents}

----------------------------------------------------------------------------
(* Format detection: lines 43-102 *)

SUPPORTED_EXTENSIONS == {".zip", ".tar", ".tar.gz", ".tar.bz2", ".tar.xz", ".rar", ".7z"}

\* the keys of ARCHIVE_MIMES
ARCHIVE_MIMES == {"application/zip", "application/x-zip-compressed",
                  "application/x-tar", "application/x-gtar",
                  "application/x-rar-compressed", "application/x-7z-compressed",
                  "application/x-bzip2", "application/x-xz"}

\* lines 66-76: the lookup by file_path.suffix.lower()
ExtensionType(suffix) ==
    IF suffix = ".zip" THEN "application/zip"
    ELSE IF suffix \in {".tar", ".tar.gz", ".tar.bz2", ".tar.xz"} THEN "application/x-tar"
    ELSE IF suffix = ".rar" THEN "application/x-rar-compressed"
    ELSE IF suffix = ".7z" THEN "application/x-7z-compressed"
    ELSE "application/octet-stream"

\* sniff_fails: magic.from_file raised in this call
detect_file_type(f, sniff_fails) ==
    IF MAGIC_SUPPORTED /\ ~sniff_fails
    THEN f.mime
    ELSE ExtensionType(Lower(PathSuffix(f.exts)))

is_archive_file(f, sniff_fails) ==
    LET mime_type == detect_file_type(f, sniff_fails)
        extension == Lower(PathSuffix(f.exts))
    IN  \/ mime_type \in ARCHIVE_MIMES
        \/ extension \in SUPPORTED_EXTENSIONS
        \/ LowerEndsWithCompound(f.exts)

----------------------------------------------------------------------------
(* Extraction: lines 282-338 *)

\* 'tar' in mime_type.lower(), over the content types of the model
MimeContainsTar(mime) == mime \in {"application/x-tar", "application/x-gtar"}

\* suffix.startswith('.tar'), over the name components of the model
StartsWithTar(suffix) == suffix = ".tar"

\* lines 298-334: the branch of the if/elif chain that is taken
Dispatch(mime_type, suffix, exts) ==
    IF mime_type \in {"application/zip", "application/x-zip-compressed"} \/ suffix = ".zip"
    THEN "zip"
    ELSE IF MimeContainsTar(mime_type) \/ StartsWithTar(suffix) \/ EndsWithCompound(exts)
    THEN "tar"
    ELSE IF mime_type = "application/x-rar-compressed" \/ suffix = ".rar"
    THEN "rar"
    ELSE IF mime_type = "application/x-7z-compressed" \/ suffix = ".7z"
    THEN "7z"
    ELSE "shutil"

Raised(exc, msg, written) == [exc |-> exc, msg |-> msg, written |-> written]
Extracted == [exc |-> "none", msg |-> "", written |-> "all"]

\* lines 300-307: ZipFile() raises BadZipFile on anything that is no zip; testzip()
\* returns the name of a member with a bad CRC, which nothing reads, and extractall()
\* then raises BadZipFile at that member, after the members before it
ZipRoutine(content) ==
    IF content = "zip" THEN Extracted
    ELSE IF content = "zip_badcrc" THEN Raised("ValueError", "Invalid ZIP file", "partial")
    ELSE Raised("ValueError", "Invalid ZIP file", "none")

\* lines 311-313: tarfile.open(path, 'r:*') reads every compression; a truncated
\* archive raises ReadError in extractall(), after the members before the cut
TarRoutine(content) ==
    IF content \in {"tar", "targz", "tarbz2", "tarxz"} THEN Extracted
    ELSE IF content = "tar_truncated" THEN Raised("ReadError", "unexpected end of data", "partial")
    ELSE Raised("ReadError", "file could not be opened successfully", "none")

\* a faulty rar routine: the missing module is reported like a broken archive
RarRoutine_NoCapabilityError(content) ==
    IF RAR_SUPPORTED /\ content = "rar" THEN Extracted
    ELSE Raised("NotRarFile", "Not a RAR file", "none")

\* lines 317-321
RarRoutine(content) ==
    IF ~RAR_SUPPORTED THEN Raised("RuntimeError", "RAR format not supported", "none")
    ELSE IF content = "rar" THEN Extracted
    ELSE Raised("NotRarFile", "Not a RAR file", "none")

\* lines 325-329
SevenZipRoutine(content) ==
    IF ~SEVENZ_SUPPORTED THEN Raised("RuntimeError", "7Z format not supported", "none")
    ELSE IF content = "7z" THEN Extracted
    ELSE Raised("Bad7zFile", "not a 7z file", "none")

\* line 334: shutil.unpack_archive picks the format by the name's ending
\* (case-sensitive) and raises ReadError when no registered format matches
ShutilUnpack(f) ==
    IF PathSuffix(f.exts) = ".zip" THEN
        IF f.content = "zip" THEN Extracted
        ELSE IF f.content = "zip_badcrc" THEN Raised("BadZipFile", "Bad CRC-32", "partial")
        ELSE Raised("ReadError", "is not a zip file", "none")
    ELSE IF PathSuffix(f.exts) = ".tar" \/ EndsWithCompound(f.exts) THEN
        TarRoutine(f.content)
    ELSE Raised("ReadError", "Unknown archive format", "none")

RunRoutine(routine, f) ==
    CASE routine = "zip"    -> ZipRoutine(f.content)
      [] routine = "tar"    -> TarRoutine(f.content)
      [] routine = "rar"    -> RarRoutine(f.content)
      [] routine = "7z"     -> SevenZipRoutine(f.content)
      [] routine = "shutil" -> ShutilUnpack(f)

\* a faulty extract_archive: the check of lines 286-287 is missing
extract_archive_Unchecked(f, sniff1, sniff2) ==
    LET mime_type == detect_file_type(f, sniff2)
        suffix == Lower(PathSuffix(f.exts))
        routine == Dispatch(mime_type, suffix, f.exts)
    IN  [routine |-> routine] @@ RunRoutine(routine, f)

\* the file given to extract_archive exists (line 294 never raises): the handler
\* passes the file it has just saved.  sniff1 and sniff2: whether magic.from_file
\* raised in the call of line 286 and in the call of line 289
extract_archive(f, sniff1, sniff2) ==
    IF ~is_archive_file(f, sniff1)
    THEN [routine |-> "none"] @@ Raised("ValueError", "Unsupported archive format", "none")
    ELSE LET mime_type == detect_file_type(f, sniff2)
             suffix == Lower(PathSuffix(f.exts))
             routine == Dispatch(mime_type, suffix, f.exts)
         IN  [routine |-> routine] @@ RunRoutine(routine, f)

----------------------------------------------------------------------------
(* The workspace and what an archive unpacks to *)

Path(dir, stem, ext) == [dir |-> dir, stem |-> stem, ext |-> ext]
NoPath == Path("", "", "")
NoFile == [exts |-> <<>>, content |-> "none", mime |-> "none"]
NoCall == [fn |-> "none"]
NoUpload == [dir |-> FALSE, file |-> FALSE, unlink_failed |-> FALSE]
NoResponse == [status |-> 0, error |-> "", detail |-> ""]

\* lines of an entry document's source text
TexLines == {"\\usepackage{pythontex}", "\\usepackage[utf8]{inputenc}",
             "\\usepackage{amsmath,pythontex}"}

TexSources(n) == {t \in SUBSET TexLines : Cardinality(t) <= n}

\* what an archive holds: its files, and the source text of its .tex files
Projects ==
    {[files |-> {Path("", "main", ".tex")}, tex |-> t] : t \in TexSources(MaxTexLines)}
    \cup {[files |-> {Path("sub", "doc", ".tex")}, tex |-> {"\\usepackage{pythontex}"}],
          [files |-> {Path("", "alpha", ".tex"), Path("sub", "beta", ".tex")}, tex |-> {}],
          [files |-> {Path("", "main", ".tex"), Path("", "main", ".pdf"),
                      Path("sub", "beta", ".tex")}, tex |-> {}],
          [files |-> {Path("", "notes", ".txt")}, tex |-> {}]}

----------------------------------------------------------------------------
(* Initial state: the capability flags are resolved at import, nothing has run *)

Init ==
    /\ MAGIC_SUPPORTED \in BOOLEAN
    /\ RAR_SUPPORTED \in BOOLEAN
    /\ SEVENZ_SUPPORTED \in BOOLEAN
    /\ call = NoCall
    /\ pc = "idle"
    /\ uploaded = NoFile
    /\ archive_path = NoFile
    /\ upload_tmp = NoUpload
    /\ workdir = [created |-> FALSE, exists |-> FALSE, files |-> {}, tex |-> {}]
    /\ main_tex = NoPath
    /\ invocations = <<>>
    /\ needs_pythontex = FALSE
    /\ result = FALSE
    /\ timed_out = 0
    /\ descendants_alive = FALSE
    /\ pdf_writer = "none"
    /\ log_files = <<>>
    /\ response = NoResponse

\* whether magic.from_file may raise in a call: only when it is there to be called
SniffFailures == IF MAGIC_SUPPORTED THEN BOOLEAN ELSE {FALSE}

flags == <<MAGIC_SUPPORTED, RAR_SUPPORTED, SEVENZ_SUPPORTED>>
request == <<pc, uploaded, archive_path, upload_tmp, workdir, main_tex, invocations,
             needs_pythontex, result, timed_out, descendants_alive, pdf_writer, log_files,
             response>>

----------------------------------------------------------------------------
(* Direct calls of the module's functions on a file *)

CallDetectFileType ==
    /\ pc = "idle" /\ call = NoCall
    /\ \E f \in Files(MaxExts), s \in SniffFailures :
          call' = [fn |-> "detect_file_type", file |-> f, sniff_failed |-> s,
                   ret |-> detect_file_type(f, s)]
    /\ UNCHANGED <<flags, request>>

CallIsArchiveFile ==
    /\ pc = "idle" /\ call = NoCall
    /\ \E f \in Files(MaxExts), s \in SniffFailures :
          call' = [fn |-> "is_archive_file", file |-> f, sniff_failed |-> s,
                   mime_type |-> detect_file_type(f, s),
                   ret |-> is_archive_file(f, s)]
    /\ UNCHANGED <<flags, request>>

\* sniff1, sniff2: whether magic.from_file raised at line 286 and at line 289
CallExtractArchive ==
    /\ pc = "idle" /\ call = NoCall
    /\ \E f \in Files(MaxExts), s1 \in SniffFailures, s2 \in SniffFailures :
          call' = [fn |-> "extract_archive", file |-> f,
                   sniff_failed |-> s1, sniff2_failed |-> s2,
                   supported |-> is_archive_file(f, s1),
                   mime_type |-> detect_file_type(f, s2),
                   ret |-> extract_archive(f, s1, s2)]
    /\ UNCHANGED <<flags, request>>

----------------------------------------------------------------------------
(* The /compile request: lines 340-446 *)

\* the uploads of the requests of the model
UploadExts == {<<".zip">>, <<".tar", ".gz">>, <<".txt">>}
UploadContents == {"zip", "zip_badcrc", "targz", "tar_truncated", "text", "empty"}
Uploads == {f \in Files(MaxExts) : f.exts \in UploadExts /\ f.content \in UploadContents}

Error(status, error, detail) == [status |-> status, error |-> error, detail |-> detail]

\* lines 343-349: no file part, or an empty filename: no workspace is made
RejectNoFile ==
    /\ pc = "idle" /\ call = NoCall
    /\ \E e \in {"No file uploaded", "No file selected"} : response' = Error(400, e, "")
    /\ pc' = "done"
    /\ UNCHANGED <<flags, call, uploaded, archive_path, upload_tmp, workdir, main_tex,
                   invocations, needs_pythontex, result, timed_out, descendants_alive,
                   pdf_writer, log_files>>

\* lines 346-353: the upload is taken and the workspace made
Receive ==
    /\ pc = "idle" /\ call = NoCall
    /\ \E u \in Uploads : uploaded' = u
    /\ workdir' = [workdir EXCEPT !.created = TRUE, !.exists = TRUE]
    /\ pc' = "save"
    /\ UNCHANGED <<flags, call, archive_path, upload_tmp, main_tex, invocations,
                   needs_pythontex, result, timed_out, descendants_alive, pdf_writer,
                   log_files, response>>

\* lines 221-228: the name components kept for the temp file "upload<suffix>"
\* (secure_filename leaves the names of the model as they are)
SavedExts(exts) ==
    IF EndsWithCompound(exts) THEN exts
    ELSE IF Len(exts) = 0 THEN <<>>
    ELSE <<exts[Len(exts)]>>

\* lines 249-267: what save_uploaded_file raises for the file it wrote, or "none"
SaveError(f) ==
    IF f.content = "empty" THEN "Saved file is empty"
    ELSE IF Lower(PathSuffix(f.exts)) = ".zip" /\ f.content \notin {"zip", "zip_badcrc"}
    THEN "Invalid ZIP file after save"
    ELSE "none"

\* whether unlink() of the saved upload raises (PermissionError while another
\* process holds the file, or any other OSError)
UnlinkOutcomes == {"removed", "raised"}

\* a faulty removal: the file is deleted and its directory stays
RemoveUpload_KeepsDirectory(tmp, outcome) ==
    IF outcome = "raised" THEN [tmp EXCEPT !.unlink_failed = TRUE]
    ELSE [dir |-> TRUE, file |-> FALSE, unlink_failed |-> FALSE]

\* lines 270-276 and 429-443: unlink() of the upload, then rmdir() of its directory,
\* which mkdtemp named "tmp..." and which holds nothing else; when unlink() raises,
\* the except clauses pass or log a warning, and file and directory stay
RemoveUpload(tmp, outcome) ==
    IF outcome = "raised" THEN [tmp EXCEPT !.unlink_failed = TRUE]
    ELSE [dir |-> FALSE, file |-> FALSE, unlink_failed |-> FALSE]

\* line 358 with lines 219-280, and the except of lines 368-369
Save ==
    /\ pc = "save"
    /\ LET tmp_file == [uploaded EXCEPT !.exts = SavedExts(uploaded.exts)]
       IN  IF SaveError(tmp_file) = "none"
           THEN /\ archive_path' = tmp_file
                /\ upload_tmp' = [dir |-> TRUE, file |-> TRUE, unlink_failed |-> FALSE]
                /\ pc' = "check"
                /\ UNCHANGED response
           ELSE \* lines 269-278: the temp file and directory are removed, then raise
                /\ \E outcome \in UnlinkOutcomes :
                      upload_tmp' = RemoveUpload([dir |-> TRUE, file |-> TRUE,
                                                  unlink_failed |-> FALSE], outcome)
                /\ response' = Error(400, SaveError(tmp_file), "")
                /\ pc' = "cleanup"
                /\ UNCHANGED archive_path
    /\ UNCHANGED <<flags, call, uploaded, workdir, main_tex, invocations, needs_pythontex,
                   result, timed_out, descendants_alive, pdf_writer, log_files>>

\* lines 360-364
CheckFormat ==
    /\ pc = "check"
    /\ \E s \in SniffFailures :
          IF is_archive_file(archive_path, s)
          THEN pc' = "extract" /\ UNCHANGED response
          ELSE /\ \E s2 \in SniffFailures :
                    response' = Error(400, "Unsupported file format",
                                      detect_file_type(archive_path, s2))
               /\ pc' = "cleanup"
    /\ UNCHANGED <<flags, call, uploaded, archive_path, upload_tmp, workdir, main_tex,
                   invocations, needs_pythontex, result, timed_out, descendants_alive,
                   pdf_writer, log_files>>

\* the files a failed extraction leaves in the destination
PartialFiles == {Path("", "notes", ".txt")}

\* lines 366-372
Extract ==
    /\ pc = "extract"
    /\ \E s1 \in SniffFailures, s2 \in SniffFailures :
          LET r == extract_archive(archive_path, s1, s2)
          IN  IF r.exc = "none"
              THEN /\ \E p \in Projects :
                        workdir' = [workdir EXCEPT !.files = p.files, !.tex = p.tex]
                   /\ pdf_writer' = IF \E q \in workdir'.files : q.ext = ".pdf"
                                    THEN "archive" ELSE "none"
                   /\ pc' = "resolve"
                   /\ UNCHANGED response
              ELSE /\ workdir' = [workdir EXCEPT
                                    !.files = IF r.written = "partial" THEN PartialFiles ELSE {}]
                   /\ response' = IF r.exc = "ValueError"
                                  THEN Error(400, r.msg, "")
                                  ELSE Error(400, "Failed to extract archive", r.msg)
                   /\ pc' = "cleanup"
                   /\ UNCHANGED pdf_writer
    /\ UNCHANGED <<flags, call, uploaded, archive_path, upload_tmp, main_tex, invocations,
                   needs_pythontex, result, timed_out, descendants_alive, log_files>>

----------------------------------------------------------------------------
(* Entry resolution: lines 374-384 *)

MainTex == Path("", "main", ".tex")

\* workdir.glob("**/*.tex")
TexFiles(files) == {f \in files : f.ext = ".tex"}

\* a faulty resolution: main.tex is one candidate among the others
EntryCandidates_NoPriority(files) == TexFiles(files)

\* the documents the handler may take as main_tex: main.tex at the root when it is
\* there, else tex_files[0], and glob() lists in the directory's own order
EntryCandidates(files) ==
    IF MainTex \in files THEN {MainTex} ELSE TexFiles(files)

Resolve ==
    /\ pc = "resolve"
    /\ IF EntryCandidates(workdir.files) = {}
       THEN /\ response' = Error(400, "No LaTeX files found", "")
            /\ pc' = "cleanup"
            /\ UNCHANGED main_tex
       ELSE /\ \E t \in EntryCandidates(workdir.files) : main_tex' = t
            /\ pc' = "primary"
            /\ UNCHANGED response
    /\ UNCHANGED <<flags, call, uploaded, archive_path, upload_tmp, workdir, invocations,
                   needs_pythontex, result, timed_out, descendants_alive, pdf_writer, log_files>>

----------------------------------------------------------------------------
(* compile_latex: lines 104-217 *)

\* line 387-388: pdf_file = workdir / (main_tex.stem + ".pdf")
PdfFile(tex_path) == Path("", tex_path.stem, ".pdf")

\* the .pytxcode file the pythontex package writes into -outdir
PytxcodeFile(tex_path) == Path("", tex_path.stem, ".pytxcode")

Exists(path, files) == path \in files

\* how a subprocess.run call ends: it returns with returncode 0 or not, raises
\* TimeoutExpired, or raises something else (the program cannot be started, its
\* output cannot be decoded)
PassOutcomes == {"exit0", "exit1", "timeout", "raised"}

\* line 122 and 183: str(tex_path)
LatexmkDocument(tex_path) == tex_path

\* line 160: str(work_dir / main_tex_name)
PythontexDocument(tex_path) == Path("", tex_path.stem, tex_path.ext)

\* lines 127, 165, 188: timeout=300, in seconds
SubprocessTimeout == 300

\* a faulty call: subprocess.run without a timeout
Invocation_NoTimeout(tool, pass, force, doc, outcome) ==
    [tool |-> tool, pass |-> pass, force |-> force, doc |-> doc, outcome |-> outcome,
     timeout |-> 0]

\* a subprocess.run call of compile_latex
Invocation(tool, pass, force, doc, outcome) ==
    [tool |-> tool, pass |-> pass, force |-> force, doc |-> doc, outcome |-> outcome,
     timeout |-> SubprocessTimeout]

\* substrings of a line of source text
HasUsepackagePythontex(line) == line = "\\usepackage{pythontex}"
HasUsepackageBracket(line) == line = "\\usepackage[utf8]{inputenc}"
HasPythontex(line) == line \in {"\\usepackage{pythontex}", "\\usepackage{amsmath,pythontex}"}

\* line 146: A or B and C
TexMentionsPythontex(tex) ==
    \/ \E l \in tex : HasUsepackagePythontex(l)
    \/ /\ \E l \in tex : HasUsepackageBracket(l)
       /\ \E l \in tex : HasPythontex(l)

\* lines 134-150: work_dir.glob("*.pytxcode") non-empty, or the source text check
NeedsPythontex(files, tex) ==
    \/ \E f \in files : f.dir = "" /\ f.ext = ".pytxcode"
    \/ TexMentionsPythontex(tex)

\* lines 196-203: the return when pythontex is not needed
ReturnAfterPrimary(returncode_nonzero, pdf_exists) ==
    IF returncode_nonzero /\ ~pdf_exists THEN FALSE ELSE pdf_exists

\* a faulty return after the final pass: a nonzero exit fails the job
ReturnAfterFinal_ExitCodeDecides(returncode_nonzero, pdf_exists) ==
    IF returncode_nonzero THEN FALSE ELSE pdf_exists

\* lines 191-195 and 202-203: the return after the final pass
ReturnAfterFinal(returncode_nonzero, pdf_exists) ==
    IF returncode_nonzero /\ ~pdf_exists THEN FALSE ELSE pdf_exists

\* a faulty continuation: a nonzero exit of pythontex ends the job
ContinueAfterAuxiliary_StopOnFailure(returncode_nonzero) == ~returncode_nonzero

\* lines 168-172: a nonzero exit of pythontex is logged and the final pass follows
ContinueAfterAuxiliary(returncode_nonzero) == TRUE

\* a faulty timeout handler: the job succeeds when the artifact is there
ReturnOnTimeout_ArtifactDecides(pdf_exists) == pdf_exists

\* lines 205-207
ReturnOnTimeout(pdf_exists) == FALSE

\* a faulty exception handler: the job succeeds when the artifact is there
ReturnOnException_ArtifactDecides(pdf_exists) == pdf_exists

\* lines 208-217
ReturnOnException(pdf_exists) == FALSE

\* what a latexmk pass leaves in the workspace
AfterLatexmk(files, tex_path, wrote_pdf, wrote_pytxcode) ==
    files \cup (IF wrote_pdf THEN {PdfFile(tex_path)} ELSE {})
          \cup (IF wrote_pytxcode THEN {PytxcodeFile(tex_path)} ELSE {})

\* lines 112-153 and 196-207
PrimaryPass ==
    /\ pc = "primary"
    /\ \E outcome \in PassOutcomes, wrote_pdf \in BOOLEAN, wrote_pytxcode \in BOOLEAN :
          LET files == AfterLatexmk(workdir.files, main_tex, wrote_pdf, wrote_pytxcode)
              pdf_exists == Exists(PdfFile(main_tex), files)
              needs == NeedsPythontex(files, workdir.tex)
          IN  /\ invocations' = Append(invocations,
                     Invocation("latexmk", "primary", TRUE, LatexmkDocument(main_tex), outcome))
              /\ workdir' = [workdir EXCEPT !.files = files]
              /\ pdf_writer' = IF wrote_pdf THEN "primary" ELSE pdf_writer
              /\ IF outcome = "timeout"
                 THEN /\ timed_out' = Len(invocations) + 1
                      /\ descendants_alive' \in BOOLEAN
                      /\ result' = ReturnOnTimeout(pdf_exists)
                      /\ pc' = "respond"
                      /\ UNCHANGED needs_pythontex
                 ELSE IF outcome = "raised"
                 THEN /\ result' = ReturnOnException(pdf_exists)
                      /\ pc' = "respond"
                      /\ UNCHANGED <<timed_out, descendants_alive, needs_pythontex>>
                 ELSE /\ needs_pythontex' = needs
                      /\ IF needs
                         THEN pc' = "auxiliary" /\ UNCHANGED result
                         ELSE /\ result' = ReturnAfterPrimary(outcome # "exit0", pdf_exists)
                              /\ pc' = "respond"
                      /\ UNCHANGED <<timed_out, descendants_alive>>
    /\ UNCHANGED <<flags, call, uploaded, archive_path, upload_tmp, main_tex, log_files,
                   response>>

\* lines 153-170
AuxiliaryPass ==
    /\ pc = "auxiliary"
    /\ \E outcome \in PassOutcomes :
          LET pdf_exists == Exists(PdfFile(main_tex), workdir.files)
          IN  /\ invocations' = Append(invocations,
                     Invocation("pythontex", "auxiliary", FALSE, PythontexDocument(main_tex), outcome))
              /\ IF outcome = "timeout"
                 THEN /\ timed_out' = Len(invocations) + 1
                      /\ descendants_alive' \in BOOLEAN
                      /\ result' = ReturnOnTimeout(pdf_exists)
                      /\ pc' = "respond"
                 ELSE IF outcome = "raised"
                 THEN /\ result' = ReturnOnException(pdf_exists)
                      /\ pc' = "respond"
                      /\ UNCHANGED <<timed_out, descendants_alive>>
                 ELSE IF ContinueAfterAuxiliary(outcome # "exit0")
                 THEN /\ pc' = "final"
                      /\ UNCHANGED <<result, timed_out, descendants_alive>>
                 ELSE /\ result' = FALSE
                      /\ pc' = "respond"
                      /\ UNCHANGED <<timed_out, descendants_alive>>
    /\ UNCHANGED <<flags, call, uploaded, archive_path, upload_tmp, workdir, main_tex,
                   needs_pythontex, pdf_writer, log_files, response>>

\* lines 172-195 and 202-207
FinalPass ==
    /\ pc = "final"
    /\ \E outcome \in PassOutcomes, wrote_pdf \in BOOLEAN :
          LET files == AfterLatexmk(workdir.files, main_tex, wrote_pdf, FALSE)
              pdf_exists == Exists(PdfFile(main_tex), files)
          IN  /\ invocations' = Append(invocations,
                     Invocation("latexmk", "final", FALSE, LatexmkDocument(main_tex), outcome))
              /\ workdir' = [workdir EXCEPT !.files = files]
              /\ pdf_writer' = IF wrote_pdf THEN "final" ELSE pdf_writer
              /\ IF outcome = "timeout"
                 THEN /\ timed_out' = Len(invocations) + 1
                      /\ descendants_alive' \in BOOLEAN
                      /\ result' = ReturnOnTimeout(pdf_exists)
                 ELSE IF outcome = "raised"
                 THEN /\ result' = ReturnOnException(pdf_exists)
                      /\ UNCHANGED <<timed_out, descendants_alive>>
                 ELSE /\ result' = ReturnAfterFinal(outcome # "exit0", pdf_exists)
                      /\ UNCHANGED <<timed_out, descendants_alive>>
              /\ pc' = "respond"
    /\ UNCHANGED <<flags, call, uploaded, archive_path, upload_tmp, main_tex,
                   needs_pythontex, log_files, response>>

----------------------------------------------------------------------------
(* The response: lines 393-418 *)

\* lines of a log file
LogLines == {"! Undefined control sequence.", "! Emergency stop.", "l.3 Hello! World"}

Logs(n) == UNION {[1..k -> LogLines] : k \in 0..n}

\* a log file of the workspace: the lines read() returns, none when open() raises
LogFile(lines, readable) == [lines |-> lines, readable |-> readable]

\* what workdir.glob("*.log") may list: nothing, or a log
LogListings ==
    {<<>>} \cup {<<LogFile(l, TRUE)>> : l \in Logs(MaxLogLines)}
           \cup {<<LogFile(<<>>, FALSE)>>}

\* line.startswith('! ')
StartsWithMarker(line) == line \in {"! Undefined control sequence.", "! Emergency stop."}

\* "! " in line
ContainsMarker(line) == line \in LogLines

\* line[2:] of a line that starts with the marker
StripMarker(line) ==
    CASE line = "! Undefined control sequence." -> "Undefined control sequence."
      [] line = "! Emergency stop." -> "Emergency stop."
      [] OTHER -> line

\* a faulty scan: the first line holding the marker anywhere is reported
Diagnostic_AnyMarker(listing, read_fails) ==
    IF listing = <<>> \/ read_fails
    THEN Error(400, "LaTeX compilation failed", "")
    ELSE LET log_content == listing[1].lines
             error_lines == SelectSeq(log_content, ContainsMarker)
         IN  IF error_lines # <<>>
             THEN Error(400, "LaTeX Error", StripMarker(error_lines[1]))
             ELSE Error(400, "LaTeX compilation failed", "")

\* lines 404-418: the error handed back when the job did not succeed
Diagnostic(listing, read_fails) ==
    IF listing = <<>> \/ read_fails
    THEN Error(400, "LaTeX compilation failed", "")
    ELSE LET log_content == listing[1].lines
             error_lines == SelectSeq(log_content, StartsWithMarker)
         IN  IF (\E i \in 1..Len(log_content) : ContainsMarker(log_content[i]))
                /\ error_lines # <<>>
             THEN Error(400, "LaTeX Error", StripMarker(error_lines[1]))
             ELSE Error(400, "LaTeX compilation failed", "")

\* line 393: result and pdf_file.exists()
Succeeded == result /\ workdir.exists /\ Exists(PdfFile(main_tex), workdir.files)

Respond ==
    /\ pc = "respond"
    /\ IF Succeeded
       THEN /\ response' = [status |-> 200, error |-> "", detail |-> "application/pdf"]
            /\ UNCHANGED log_files
       ELSE \E listing \in LogListings :
               /\ log_files' = listing
               /\ response' = Diagnostic(listing, listing # <<>> /\ ~listing[1].readable)
    /\ pc' = "cleanup"
    /\ UNCHANGED <<flags, call, uploaded, archive_path, upload_tmp, workdir, main_tex,
                   invocations, needs_pythontex, result, timed_out, descendants_alive,
                   pdf_writer>>

\* an exception nothing catches before the finally: glob() at line 378 raises
\* (a directory of the archive cannot be listed)
Unexpected ==
    /\ pc = "resolve"
    /\ response' = Error(500, "Internal Server Error", "")
    /\ pc' = "cleanup"
    /\ UNCHANGED <<flags, call, uploaded, archive_path, upload_tmp, workdir, main_tex,
                   invocations, needs_pythontex, result, timed_out, descendants_alive,
                   pdf_writer, log_files>>

----------------------------------------------------------------------------
(* The finally block: lines 420-446 *)

\* line 446: shutil.rmtree(workdir, ignore_errors=True) swallows every error; while
\* processes of the job still write into the tree a removal may fail
RmtreeOutcomes == IF descendants_alive THEN BOOLEAN ELSE {TRUE}

Cleanup ==
    /\ pc = "cleanup"
    /\ IF archive_path # NoFile /\ upload_tmp.file
       THEN \E outcome \in UnlinkOutcomes : upload_tmp' = RemoveUpload(upload_tmp, outcome)
       ELSE UNCHANGED upload_tmp
    /\ \E removed \in RmtreeOutcomes :
          workdir' = IF workdir.exists /\ removed
                     THEN [workdir EXCEPT !.exists = FALSE, !.files = {}]
                     ELSE workdir
    /\ pc' = "done"
    /\ UNCHANGED <<flags, call, uploaded, archive_path, main_tex, invocations,
                   needs_pythontex, result, timed_out, descendants_alive, pdf_writer,
                   log_files, response>>

----------------------------------------------------------------------------

Next ==
    \/ CallDetectFileType
    \/ CallIsArchiveFile
    \/ CallExtractArchive
    \/ RejectNoFile
    \/ Receive
    \/ Save
    \/ CheckFormat
    \/ Extract
    \/ Resolve
    \/ PrimaryPass
    \/ AuxiliaryPass
    \/ FinalPass
    \/ Respond
    \/ Unexpected
    \/ Cleanup

Spec == Init /\ [][Next]_vars

----------------------------------------------------------------------------
(* Properties *)

\* compile_latex has returned and the handler has answered; the workspace is still there
Answered == pc = "cleanup" /\ invocations # <<>>

Outcomes == {invocations[i].outcome : i \in 1..Len(invocations)}
Passes == [i \in 1..Len(invocations) |-> invocations[i].pass]
ArtifactExists == Exists(PdfFile(main_tex), workdir.files)

\* C1, as stated: in every run in which no invocation times out, the job is reported
\* as succeeded if and only if the artifact <entry-stem>.pdf exists when the pipeline
\* finishes.
C1_SuccessIffArtifact_Original ==
    (Answered /\ "timeout" \notin Outcomes)
        => (response.status = 200 <=> ArtifactExists)

\* C1, amended: in every run in which no invocation times out or raises another
\* exception, the job is reported as succeeded if and only if the artifact exists
\* when the pipeline finishes, whatever the exit codes were; a run in which an
\* invocation raises is reported as failed.
C1_SuccessIffArtifact ==
    /\ (Answered /\ "timeout" \notin Outcomes /\ "raised" \notin Outcomes)
          => (response.status = 200 <=> ArtifactExists)
    /\ (Answered /\ "raised" \in Outcomes) => response.status = 400

\* C1, witness: the final pass exits nonzero, the artifact exists, and the job succeeds
C1_Witness ==
    /\ Answered
    /\ Len(invocations) = 3
    /\ invocations[3].outcome = "exit1"
    /\ ArtifactExists
    /\ response.status = 200

\* C2: once the handler of a request that created a workspace has returned, the
\* workspace directory no longer exists.
C2_WorkspaceDestroyed ==
    (pc = "done" /\ workdir.created) => ~workdir.exists

\* C3: an invocation that times out is the last invocation of its job, and the job
\* ends failed, even if the artifact exists at that moment.
C3_TimeoutTerminal ==
    /\ \A i \in 1..Len(invocations) :
          invocations[i].outcome = "timeout" => i = Len(invocations)
    /\ "timeout" \in Outcomes
          => /\ pc \in {"respond", "cleanup", "done"}
             /\ ~result
             /\ pc \in {"cleanup", "done"} => response.status = 400

\* C3, witness: the primary pass timed out with the artifact written, and the job failed
C3_Witness ==
    /\ Answered
    /\ timed_out = 1
    /\ ArtifactExists
    /\ response.status = 400

\* C4: a job in which an invocation timed out hands back an outcome that is neither
\* the CompilationFailure message nor a summary scraped from the log.
C4_TimeoutReported ==
    (pc \in {"cleanup", "done"} /\ timed_out # 0)
        => response.error \notin {"LaTeX compilation failed", "LaTeX Error"}

\* the name pythontex occurs in the entry document's source text
SourceReferencesPythontex == \E l \in workdir.tex : HasPythontex(l)

\* a .pytxcode file is in the workspace root
PytxcodePresent == \E f \in workdir.files : f.dir = "" /\ f.ext = ".pytxcode"

\* the primary pass has returned and lines 133-150 have run
DetectionRan ==
    /\ pc \in {"auxiliary", "final", "respond", "cleanup"}
    /\ invocations # <<>>
    /\ invocations[1].outcome \in {"exit0", "exit1"}

\* C5: after the primary pass the auxiliary pass is required if and only if a
\* .pytxcode file is in the workspace root or the entry document's source text
\* references the pythontex package by name; when both are false the job makes
\* exactly one invocation.
C5_RequiredIffDetected ==
    DetectionRan =>
        /\ needs_pythontex <=> (PytxcodePresent \/ SourceReferencesPythontex)
        /\ (~PytxcodePresent /\ ~SourceReferencesPythontex /\ pc \in {"respond", "cleanup"})
              => Len(invocations) = 1

CompileReturned == pc \in {"respond", "cleanup", "done"} /\ invocations # <<>>

\* C6, as stated: the primary pass is the first invocation; when the auxiliary pass
\* is required and nothing times out, the invocations are exactly primary, auxiliary,
\* final; a final pass has the auxiliary pass right before it.
C6_PassOrder_Original ==
    /\ invocations # <<>> => Passes[1] = "primary"
    /\ (CompileReturned /\ needs_pythontex /\ "timeout" \notin Outcomes)
          => Passes = <<"primary", "auxiliary", "final">>
    /\ \A i \in 1..Len(invocations) :
          Passes[i] = "final" => i > 1 /\ Passes[i - 1] = "auxiliary"

\* C6, amended: the primary pass is the first invocation; when the auxiliary pass is
\* required and no invocation times out or raises another exception, the invocations
\* are exactly primary, auxiliary, final, whatever the exit codes of the primary and
\* the auxiliary pass; a final pass has the auxiliary pass right before it.
C6_PassOrder ==
    /\ invocations # <<>> => Passes[1] = "primary"
    /\ (CompileReturned /\ needs_pythontex /\ "timeout" \notin Outcomes
                        /\ "raised" \notin Outcomes)
          => Passes = <<"primary", "auxiliary", "final">>
    /\ \A i \in 1..Len(invocations) :
          Passes[i] = "final" => i > 1 /\ Passes[i - 1] = "auxiliary"

\* C6, witness: the primary and the auxiliary pass exit nonzero and the final pass runs
C6_Witness ==
    /\ CompileReturned
    /\ Passes = <<"primary", "auxiliary", "final">>
    /\ invocations[1].outcome = "exit1"
    /\ invocations[2].outcome = "exit1"

\* the container kind a content is, a name claims, a content type stands for
ContentKind(content) ==
    CASE content = "zip" -> "zip"
      [] content \in {"tar", "targz", "tarbz2", "tarxz"} -> "tar"
      [] content = "rar" -> "rar"
      [] content = "7z" -> "7z"
      [] OTHER -> "none"

NameKind(exts) ==
    LET suffix == Lower(PathSuffix(exts))
    IN  IF LowerEndsWithCompound(exts) \/ suffix = ".tar" THEN "tar"
        ELSE IF suffix = ".zip" THEN "zip"
        ELSE IF suffix = ".rar" THEN "rar"
        ELSE IF suffix = ".7z" THEN "7z"
        ELSE "none"

MimeKind(mime) ==
    CASE mime \in {"application/zip", "application/x-zip-compressed"} -> "zip"
      [] mime \in {"application/x-tar", "application/x-gtar", "application/x-bzip2",
                   "application/x-xz"} -> "tar"
      [] mime = "application/x-rar-compressed" -> "rar"
      [] mime = "application/x-7z-compressed" -> "7z"
      [] OTHER -> "none"

\* C7: with content sniffing at work, a file whose content is a supported container
\* and whose name says otherwise, or nothing, gets a known archive content type and
\* is_archive_file returns true.
C7_ContentWins ==
    (/\ call.fn = "is_archive_file"
     /\ MAGIC_SUPPORTED /\ ~call.sniff_failed
     /\ ContentKind(call.file.content) # "none"
     /\ NameKind(call.file.exts) # ContentKind(call.file.content))
        => call.mime_type \in ARCHIVE_MIMES /\ call.ret

\* C8: when the detected content type is one container kind and the name claims
\* another, extract_archive runs the routine of the content type.
C8_ContentTypeDispatch ==
    (/\ call.fn = "extract_archive"
     /\ MAGIC_SUPPORTED /\ ~call.sniff_failed /\ ~call.sniff2_failed
     /\ MimeKind(call.mime_type) # "none"
     /\ NameKind(call.file.exts) \notin {"none", MimeKind(call.mime_type)})
        => call.ret.routine = MimeKind(call.mime_type)

\* C9: without content sniffing, or when it fails, a name ending in .tar.gz, .tar.bz2
\* or .tar.xz is classified as a tar archive, and a name with no known suffix as the
\* unknown type.
C9_ExtensionFallback ==
    (call.fn = "detect_file_type" /\ (~MAGIC_SUPPORTED \/ call.sniff_failed))
        => /\ LowerEndsWithCompound(call.file.exts) => call.ret = "application/x-tar"
           /\ NameKind(call.file.exts) = "none" => call.ret = "application/octet-stream"

InvalidContents == {"text", "empty", "zip_badcrc", "tar_truncated"}

InputErrors == {"Saved file is empty", "Invalid ZIP file after save",
                "Unsupported file format", "Unsupported archive format",
                "Invalid ZIP file", "Failed to extract archive"}

\* C10: when is_archive_file is false, extract_archive raises the unsupported-format
\* error, runs no routine and writes nothing; a request whose upload is no valid
\* archive ends with an input error and reaches neither entry resolution nor a
\* toolchain invocation.
C10_InvalidInputRejected ==
    /\ (call.fn = "extract_archive" /\ ~call.supported)
          => /\ call.ret.exc = "ValueError"
             /\ call.ret.msg = "Unsupported archive format"
             /\ call.ret.routine = "none"
             /\ call.ret.written = "none"
    /\ uploaded.content \in InvalidContents
          => /\ pc \in {"save", "check", "extract", "cleanup", "done"}
             /\ main_tex = NoPath
             /\ invocations = <<>>
             /\ pc \in {"cleanup", "done"}
                   => response.status = 400 /\ response.error \in InputErrors

\* C10, witness: plain text uploaded under the name of a zip archive is refused
C10_Witness ==
    /\ pc = "done"
    /\ uploaded.content = "text"
    /\ uploaded.exts = <<".zip">>
    /\ response.status = 400
    /\ invocations = <<>>
    /\ ~workdir.exists

\* C11: every extraction routine checks the archive before unpacking, so that when
\* extract_archive fails on a corrupt archive nothing has been written to the
\* destination.
C11_NoPartialExtraction ==
    (call.fn = "extract_archive" /\ call.ret.exc # "none")
        => call.ret.written = "none"

\* a rar or 7z archive under its own extension
OptionalFormat(f) ==
    \/ f.content = "rar" /\ Lower(PathSuffix(f.exts)) = ".rar"
    \/ f.content = "7z" /\ Lower(PathSuffix(f.exts)) = ".7z"

\* the module that reads f is not installed
CapabilityAbsent(f) ==
    \/ f.content = "rar" /\ ~RAR_SUPPORTED
    \/ f.content = "7z" /\ ~SEVENZ_SUPPORTED

EntryResolved == pc \in {"primary", "auxiliary", "final", "respond", "cleanup"}

C13_EntryIsResolved ==
    /\ (EntryResolved /\ main_tex # NoPath)
        => /\ main_tex \in TexFiles(workdir.files)
           /\ MainTex \in workdir.files => main_tex = MainTex
    /\ invocations # <<>> => main_tex # NoPath
    /\ response.error = "No LaTeX files found"
        => /\ response.status = 400
           /\ TexFiles(workdir.files) = {}
           /\ invocations = <<>>

\* entry resolution over a workspace without a .tex file, when the search itself
\* does not raise
C13_NoEntryDocument ==
    (pc = "resolve" /\ TexFiles(workdir.files) = {} /\ response'.status # 500)
        => /\ pc' = "cleanup"
           /\ response' = Error(400, "No LaTeX files found", "")
           /\ invocations' = <<>>

\* C13: main.tex at the workspace root is the entry document whatever other .tex
\* files the tree holds; without it the entry is a .tex file found anywhere in the
\* tree; a workspace with no .tex file ends the job with "No LaTeX files found"
\* and no toolchain process is ever started.
C13_EntryResolution == [](C13_EntryIsResolved) /\ [][C13_NoEntryDocument]_vars

C13_Witness ==
    /\ pc = "primary"
    /\ main_tex = MainTex
    /\ Path("sub", "beta", ".tex") \in workdir.files

MarkedLines(lines) == {i \in 1..Len(lines) : StartsWithMarker(lines[i])}

FirstMarkedLine(lines) ==
    lines[CHOOSE i \in MarkedLines(lines) : \A j \in MarkedLines(lines) : i <= j]

\* C15: the logs are read only when the job did not succeed; the error then names
\* the first line of the first log file that begins with "! ", without the marker;
\* with no log file, no such line, or a log that cannot be read, the error is the
\* generic "LaTeX compilation failed", and the response is a 400 in every case.
C15_Diagnostics ==
    /\ response.status = 200 => log_files = <<>>
    /\ (invocations # <<>> /\ pc \in {"cleanup", "done"} /\ response.status # 200)
        => IF /\ log_files # <<>>
              /\ log_files[1].readable
              /\ MarkedLines(log_files[1].lines) # {}
           THEN response = Error(400, "LaTeX Error",
                                 StripMarker(FirstMarkedLine(log_files[1].lines)))
           ELSE response = Error(400, "LaTeX compilation failed", "")

C15_Witness ==
    /\ Answered
    /\ log_files # <<>>
    /\ log_files[1].lines = <<"l.3 Hello! World", "! Emergency stop.">>
    /\ response = Error(400, "LaTeX Error", "Emergency stop.")

\* C16: once an invocation has timed out, no process of the job is alive when
\* compile_latex has returned, while the failure is answered, or while the
\* workspace is removed.
C16_ProcessTreeTerminated ==
    (timed_out # 0 /\ pc \in {"respond", "cleanup", "done"}) => ~descendants_alive

\* C17: the document path handed to pythontex is the path handed to latexmk in the
\* same job, also when the entry document lies in a subdirectory.
C17_SameEntryDocument ==
    \A i, j \in 1..Len(invocations) :
        (invocations[i].tool = "latexmk" /\ invocations[j].tool = "pythontex")
            => invocations[j].doc = invocations[i].doc

\* the place of a pass in compile_latex
PassRank(pass) == CASE pass = "primary" -> 1 [] pass = "auxiliary" -> 2 [] pass = "final" -> 3

Compiling == pc \in {"primary", "auxiliary", "final"}

\* compile_latex has returned: the job is Succeeded or Failed
Terminal == pc \in {"respond", "cleanup", "done"}

InvocationsOf(tool) == {i \in 1..Len(invocations) : invocations[i].tool = tool}

C18_BoundedInvocations ==
    /\ Len(invocations) <= 3
    /\ Cardinality(InvocationsOf("latexmk")) <= 2
    /\ Cardinality(InvocationsOf("pythontex")) <= 1
    /\ \A i \in 1..Len(invocations) : invocations[i].timeout = SubprocessTimeout
    /\ \A i, j \in 1..Len(invocations) :
          i < j => PassRank(invocations[i].pass) < PassRank(invocations[j].pass)
    /\ Compiling => /\ ENABLED (PrimaryPass \/ AuxiliaryPass \/ FinalPass)
                    /\ \A i \in 1..Len(invocations) :
                          PassRank(invocations[i].pass) < PassRank(pc)

\* a step of a job inside compile_latex starts one invocation and moves to a later
\* pass or returns; a step after the return starts none and keeps the result
C18_Progress ==
    /\ Compiling => /\ Len(invocations') = Len(invocations) + 1
                    /\ \/ Terminal'
                       \/ Compiling' /\ PassRank(pc') > PassRank(pc)
    /\ Terminal => /\ Terminal'
                   /\ invocations' = invocations
                   /\ result' = result

\* C18: a job starts at most three invocations, at most two of latexmk and one of
\* pythontex, each with the 300 s timeout; it never goes back to an earlier pass,
\* every pass it starts ends, and after at most three it has returned with success
\* or failure, after which it starts no invocation.
C18_BoundedPasses == [](C18_BoundedInvocations) /\ [][C18_Progress]_vars

C18_Witness ==
    /\ Terminal
    /\ Passes = <<"primary", "auxiliary", "final">>

\* C19, as stated: whenever a job is reported as succeeded, the file returned was
\* written by the last pass the job started, not taken from the archive and not
\* left by an earlier pass.
C19_ArtifactProvenance_Original ==
    (Answered /\ response.status = 200) => pdf_writer = Passes[Len(invocations)]

\* C19, amended: whenever a job is reported as succeeded, the file returned exists
\* at the artifact path when compile_latex returns and no invocation of the job
\* timed out or raised; the file was written by a latexmk pass of the job, not
\* necessarily the last one, or was already in the uploaded archive.
C19_ArtifactProvenance ==
    (Answered /\ response.status = 200)
        => /\ ArtifactExists
           /\ Outcomes \subseteq {"exit0", "exit1"}
           /\ \/ pdf_writer = "archive" /\ PdfFile(main_tex) \in workdir.files
              \/ /\ pdf_writer \in {"primary", "final"}
                 /\ \E i \in 1..Len(invocations) :
                       invocations[i].pass = pdf_writer /\ invocations[i].tool = "latexmk"

\* C19, witness: the job succeeds on the artifact that came with the archive
C19_Witness ==
    /\ Answered
    /\ response.status = 200
    /\ pdf_writer = "archive"
    /\ Len(invocations) = 1

\* the request has been answered and the finally block has run
Finished == pc = "done"

====
